---- MODULE Spec2Model ----
(***************************************************************************)
(* EduMedia server: the per-user UndoStack and the edit / delete / undo /  *)
(* undo-status handlers of the posts API, over a model of the Supabase     *)
(* tables posts, likes and comments; and the browser page of app.js with  *)
(* its NavigationStack and the undo of its history.                        *)
(***************************************************************************)
EXTENDS Integers, Sequences, FiniteSets, TLC

VARIABLES
    stacks,     \* UndoStack.stacks: Map userId -> array of actions
    posts,      \* table posts: id -> row
    likes,      \* table likes: set of rows
    comments,   \* table comments: set of rows
    reqs,       \* the requests in flight: position and locals of each handler
    nfail,      \* number of store calls that failed for an outside reason
    clock,      \* the wall clock read by new Date()
    call,       \* the last direct call of an UndoStack method and its result
    run,        \* the pushes to a user without actions and the pops after them
    navigationStack,    \* browser: navigationStack.stack
    backBtn,            \* browser: style.display of the element backBtn
    activePage,         \* browser: the page whose element has class active
    AppState,           \* browser: the object AppState of app.js
    task                \* browser: the suspended async function, last event

browserVars == <<navigationStack, backBtn, activePage, AppState, task>>
vars == <<stacks, posts, likes, comments, reqs, nfail, clock, call, run,
          browserVars>>
storeVars == <<posts, likes, comments>>
clientVars == <<call, run>>

----------------------------------------------------------------------------
(* Bounds *)

MaxClock == 1       \* the clock takes the values 0..MaxClock
MaxRun == 11        \* longest run of pushes that run[u] records
OtherDepth == 1     \* direct pushes to u2 stop at this stack length
MaxFail == 1        \* store calls that fail for a reason outside the model

----------------------------------------------------------------------------
(* Values *)

Actors == {"u1", "u2"}
Null == [type |-> "null"]
StackLimit == 10

Max(a, b) == IF a > b THEN a ELSE b
Min(a, b) == IF a < b THEN a ELSE b

\* A post row as the posts table holds it.
Row(id, author, content, nlikes, created) ==
    [id |-> id, author_id |-> author, content |-> content,
     likes |-> nlikes, created_at |-> created]

\* The post of u1 in the database when the server starts.
P1Row == Row("p1", "u1", <<"a">>, 3, 0)

EditActionLowerCase(originalPost, newContent, now) ==
    [type |-> "edit", post_id |-> originalPost.id,
     original_content |-> originalPost.content,
     new_content |-> newContent, timestamp |-> now]

EditActionSwapped(originalPost, newContent, now) ==
    [type |-> "EDIT", post_id |-> originalPost.id,
     original_content |-> newContent,
     new_content |-> originalPost.content, timestamp |-> now]

\* The action the edit handler records.
EditAction(originalPost, newContent, now) ==
    [type |-> "EDIT", post_id |-> originalPost.id,
     original_content |-> originalPost.content,
     new_content |-> newContent, timestamp |-> now]

DeleteActionNewId(postToDelete, now) ==
    [type |-> "DELETE",
     post |-> Row("p2", postToDelete.author_id, postToDelete.content,
                  postToDelete.likes, postToDelete.created_at),
     timestamp |-> now]

\* The action the delete handler records.
DeleteAction(postToDelete, now) ==
    [type |-> "DELETE",
     post |-> Row(postToDelete.id, postToDelete.author_id, postToDelete.content,
                  postToDelete.likes, postToDelete.created_at),
     timestamp |-> now]

----------------------------------------------------------------------------
(* Map *)

MapHas(m, k) == k \in DOMAIN m
MapSet(m, k, v) == [x \in (DOMAIN m) \cup {k} |-> IF x = k THEN v ELSE m[x]]
MapDelete(m, k) == [x \in (DOMAIN m) \ {k} |-> m[x]]
EmptyMap == [x \in {} |-> <<>>]

\* Array.prototype.shift and Array.prototype.pop leave these arrays.
Shifted(s) == SubSeq(s, 2, Len(s))
Popped(s) == SubSeq(s, 1, Len(s) - 1)

----------------------------------------------------------------------------
(* class UndoStack: each method gives the Map it leaves (and its result) *)

pushNoLimit(m, userId, action) ==
    LET m1 == IF ~MapHas(m, userId) THEN MapSet(m, userId, <<>>) ELSE m
    IN  MapSet(m1, userId, Append(m1[userId], action))

pushEvictNewest(m, userId, action) ==
    LET m1 == IF ~MapHas(m, userId) THEN MapSet(m, userId, <<>>) ELSE m
        m2 == MapSet(m1, userId, Append(m1[userId], action))
    IN  IF Len(m2[userId]) > StackLimit
        THEN MapSet(m2, userId, Popped(m2[userId]))
        ELSE m2

pushFront(m, userId, action) ==
    LET stack == <<action>> \o (IF MapHas(m, userId) THEN m[userId] ELSE <<>>)
    IN  MapSet(m, userId,
               IF Len(stack) > StackLimit THEN Shifted(stack) ELSE stack)

push(m, userId, action) ==
    LET m1 == IF ~MapHas(m, userId) THEN MapSet(m, userId, <<>>) ELSE m
        m2 == MapSet(m1, userId, Append(m1[userId], action))
    IN  IF Len(m2[userId]) > StackLimit
        THEN MapSet(m2, userId, Shifted(m2[userId]))
        ELSE m2

popNoRemove(m, userId) ==
    IF ~MapHas(m, userId) \/ Len(m[userId]) = 0
    THEN [ret |-> Null, stacks |-> m]
    ELSE [ret |-> m[userId][Len(m[userId])], stacks |-> m]

popOldest(m, userId) ==
    IF ~MapHas(m, userId) \/ Len(m[userId]) = 0
    THEN [ret |-> Null, stacks |-> m]
    ELSE [ret |-> m[userId][1],
          stacks |-> MapSet(m, userId, Shifted(m[userId]))]

pop(m, userId) ==
    IF ~MapHas(m, userId) \/ Len(m[userId]) = 0
    THEN [ret |-> Null, stacks |-> m]
    ELSE [ret |-> m[userId][Len(m[userId])],
          stacks |-> MapSet(m, userId, Popped(m[userId]))]

peekOldest(m, userId) ==
    IF ~MapHas(m, userId) \/ Len(m[userId]) = 0
    THEN Null
    ELSE LET stack == m[userId] IN stack[1]

peek(m, userId) ==
    IF ~MapHas(m, userId) \/ Len(m[userId]) = 0
    THEN Null
    ELSE LET stack == m[userId] IN stack[Len(stack)]

isEmptyNoEntry(m, userId) == ~MapHas(m, userId)

isEmpty(m, userId) == ~MapHas(m, userId) \/ Len(m[userId]) = 0

clearAll(m, userId) == IF MapHas(m, userId) THEN EmptyMap ELSE m

clear(m, userId) == IF MapHas(m, userId) THEN MapDelete(m, userId) ELSE m

size(m, userId) == IF MapHas(m, userId) THEN Len(m[userId]) ELSE 0

\* The array of a user, the empty one when the Map has no entry.
ActionsOf(m, userId) == IF MapHas(m, userId) THEN m[userId] ELSE <<>>

----------------------------------------------------------------------------
(* Direct calls of the UndoStack methods, as any caller in the process     *)
(* may make them.                                                          *)

NoCall == [op |-> "none", userId |-> "none", arg |-> Null, ret |-> Null,
           before |-> EmptyMap]
NoRun == [userId |-> "none", ok |-> FALSE, pushed |-> <<>>, popped |-> <<>>]

\* The action a direct caller pushes for a user at clock reading now.
SampleAction(userId, now) ==
    IF userId = "u1"
    THEN EditAction(P1Row, <<"b">>, now)
    ELSE DeleteAction(Row("p2", "u2", <<"a">>, 0, 0), now)

\* A run is a series of pushes to one user who had no actions, followed by a
\* series of pops of that user, with calls for other users in between.  run
\* records the pushed actions and the results of the pops; it ends when the
\* user is cleared or pushed to after a pop, and the next push to a user
\* without actions starts a new one.
RunAfterPush(r, u, wasEmpty, v) ==
    IF r.userId = u /\ r.ok /\ r.popped = <<>> /\ Len(r.pushed) < MaxRun
    THEN [r EXCEPT !.pushed = Append(@, v)]
    ELSE IF wasEmpty
    THEN [userId |-> u, ok |-> TRUE, pushed |-> <<v>>, popped |-> <<>>]
    ELSE IF r.userId = u THEN NoRun
    ELSE r

RunAfterPop(r, u, ret) ==
    IF r.userId = u /\ r.ok /\ Len(r.popped) <= Len(r.pushed)
    THEN [r EXCEPT !.popped = Append(@, ret)]
    ELSE r

RunAfterClear(r, u) == IF r.userId = u THEN NoRun ELSE r

CallPush(u) ==
    /\ u = "u2" => size(stacks, u) < OtherDepth
    /\ LET v == SampleAction(u, clock) IN
        /\ stacks' = push(stacks, u, v)
        /\ call' = [op |-> "push", userId |-> u, arg |-> v, ret |-> Null,
                    before |-> stacks]
        /\ run' = RunAfterPush(run, u, isEmpty(stacks, u), v)
    /\ UNCHANGED <<storeVars, reqs, nfail, clock, browserVars>>

CallPop(u) ==
    /\ LET p == pop(stacks, u) IN
        /\ stacks' = p.stacks
        /\ call' = [op |-> "pop", userId |-> u, arg |-> Null, ret |-> p.ret,
                    before |-> stacks]
        /\ run' = RunAfterPop(run, u, p.ret)
    /\ UNCHANGED <<storeVars, reqs, nfail, clock, browserVars>>

\* A caller reads isEmpty, size and peek of a user, none of which writes.
CallObserve(u) ==
    /\ call' = [op |-> "observe", userId |-> u, arg |-> Null,
                ret |-> [isEmpty |-> isEmpty(stacks, u), size |-> size(stacks, u),
                         peek |-> peek(stacks, u)],
                before |-> stacks]
    /\ UNCHANGED <<stacks, run, storeVars, reqs, nfail, clock, browserVars>>

CallClear(u) ==
    /\ stacks' = clear(stacks, u)
    /\ call' = [op |-> "clear", userId |-> u, arg |-> Null, ret |-> Null,
                before |-> stacks]
    /\ run' = RunAfterClear(run, u)
    /\ UNCHANGED <<storeVars, reqs, nfail, clock, browserVars>>

\* The caller that has just popped an action pushes that same action back.
CallPushBack(u) ==
    /\ call.op = "pop" /\ call.userId = u /\ call.ret # Null
    /\ stacks' = push(stacks, u, call.ret)
    /\ call' = [op |-> "pushback", userId |-> u, arg |-> call.ret, ret |-> Null,
                before |-> call.before]
    /\ run' = RunAfterPush(run, u, isEmpty(stacks, u), call.ret)
    /\ UNCHANGED <<storeVars, reqs, nfail, clock, browserVars>>

\* Time passes between two readings of the clock.
Tick ==
    /\ clock < MaxClock
    /\ clock' = clock + 1
    /\ UNCHANGED <<stacks, storeVars, reqs, nfail, clientVars, browserVars>>

----------------------------------------------------------------------------
(* The Supabase client: what each query of the handlers does to the tables *)
(* and the { data, error, count } it resolves to.                          *)

NoResult == [data |-> Null, error |-> Null, count |-> 0]
Data(row) == [data |-> row, error |-> Null, count |-> 0]
Error(msg) == [data |-> Null, error |-> [message |-> msg], count |-> 0]
Count(n) == [data |-> Null, error |-> Null, count |-> n]

NoQuery == [op |-> "none"]

SelectPostAnyAuthor(id, author) ==
    IF id \in DOMAIN posts THEN Data(posts[id]) ELSE Error("no rows")

\* from('posts').select('*').eq('id', id).eq('author_id', author).single()
SelectPost(id, author) ==
    IF id \in DOMAIN posts /\ posts[id].author_id = author
    THEN Data(posts[id])
    ELSE Error("no rows")

\* from('posts').update({content}).eq('id', id).eq('author_id', author)
\*   .select().single(): the table it leaves and the result
UpdatePostRows(id, author, content) ==
    IF id \in DOMAIN posts /\ posts[id].author_id = author
    THEN [posts EXCEPT ![id].content = content]
    ELSE posts

UpdatePost(id, author, content) ==
    IF id \in DOMAIN posts /\ posts[id].author_id = author
    THEN Data([posts[id] EXCEPT !.content = content])
    ELSE Error("no rows")

\* from('posts').insert([row]).select().single(); id is the primary key
InsertPostRows(row) ==
    IF row.id \in DOMAIN posts THEN posts ELSE MapSet(posts, row.id, row)

InsertPost(row) ==
    IF row.id \in DOMAIN posts THEN Error("duplicate key") ELSE Data(row)

\* likes.post_id and comments.post_id are foreign keys to posts.id
Referenced(id) ==
    \/ \E l \in likes : l.post_id = id
    \/ \E c \in comments : c.post_id = id

\* from('posts').delete().eq('id', id).eq('author_id', author)
DeletePostRows(id, author) ==
    IF id \in DOMAIN posts /\ posts[id].author_id = author /\ ~Referenced(id)
    THEN MapDelete(posts, id)
    ELSE posts

DeletePost(id, author) ==
    IF id \in DOMAIN posts /\ posts[id].author_id = author /\ Referenced(id)
    THEN Error("foreign key violation")
    ELSE NoResult

\* from('likes').select('*', {count: 'exact', head: true}).eq('post_id', id)
CountLikes(id) == Count(Cardinality({l \in likes : l.post_id = id}))
CountComments(id) == Count(Cardinality({c \in comments : c.post_id = id}))

\* A request waits for the store: the query it sent has not been answered.
Waiting(r, op) ==
    /\ reqs[r].pc \notin {"idle", "done"}
    /\ ~reqs[r].ready
    /\ reqs[r].query.op = op

Answer(r, result) ==
    reqs' = [reqs EXCEPT ![r].ready = TRUE, ![r].result = result]

\* The store may fail any query (network, service) without touching a table.
Fails(r) ==
    /\ nfail < MaxFail
    /\ nfail' = nfail + 1
    /\ Answer(r, Error("store failure"))
    /\ UNCHANGED <<stacks, storeVars, clock, clientVars, browserVars>>

StoreSelectPost(r) ==
    /\ Waiting(r, "select_post")
    /\ \/ Fails(r)
       \/ /\ Answer(r, SelectPost(reqs[r].query.id, reqs[r].query.author_id))
          /\ UNCHANGED <<stacks, storeVars, nfail, clock, clientVars, browserVars>>

StoreUpdatePost(r) ==
    /\ Waiting(r, "update_post")
    /\ \/ Fails(r)
       \/ LET q == reqs[r].query IN
          /\ posts' = UpdatePostRows(q.id, q.author_id, q.content)
          /\ Answer(r, UpdatePost(q.id, q.author_id, q.content))
          /\ UNCHANGED <<stacks, likes, comments, nfail, clock, clientVars, browserVars>>

StoreInsertPost(r) ==
    /\ Waiting(r, "insert_post")
    /\ \/ Fails(r)
       \/ LET q == reqs[r].query IN
          /\ posts' = InsertPostRows(q.row)
          /\ Answer(r, InsertPost(q.row))
          /\ UNCHANGED <<stacks, likes, comments, nfail, clock, clientVars, browserVars>>

StoreDeleteLikes(r) ==
    /\ Waiting(r, "delete_likes")
    /\ \/ Fails(r)
       \/ /\ likes' = {l \in likes : l.post_id # reqs[r].query.id}
          /\ Answer(r, NoResult)
          /\ UNCHANGED <<stacks, posts, comments, nfail, clock, clientVars, browserVars>>

StoreDeleteComments(r) ==
    /\ Waiting(r, "delete_comments")
    /\ \/ Fails(r)
       \/ /\ comments' = {c \in comments : c.post_id # reqs[r].query.id}
          /\ Answer(r, NoResult)
          /\ UNCHANGED <<stacks, posts, likes, nfail, clock, clientVars, browserVars>>

StoreDeletePost(r) ==
    /\ Waiting(r, "delete_post")
    /\ \/ Fails(r)
       \/ LET q == reqs[r].query IN
          /\ posts' = DeletePostRows(q.id, q.author_id)
          /\ Answer(r, DeletePost(q.id, q.author_id))
          /\ UNCHANGED <<stacks, likes, comments, nfail, clock, clientVars, browserVars>>

StoreCountLikes(r) ==
    /\ Waiting(r, "count_likes")
    /\ \/ Fails(r)
       \/ /\ Answer(r, CountLikes(reqs[r].query.id))
          /\ UNCHANGED <<stacks, storeVars, nfail, clock, clientVars, browserVars>>

StoreCountComments(r) ==
    /\ Waiting(r, "count_comments")
    /\ \/ Fails(r)
       \/ /\ Answer(r, CountComments(reqs[r].query.id))
          /\ UNCHANGED <<stacks, storeVars, nfail, clock, clientVars, browserVars>>

----------------------------------------------------------------------------
(* Requests: one record per handler invocation, with its locals *)

Slots == {1}

NoRes == [status |-> 0, success |-> FALSE, message |-> "", data |-> Null]
Res(status, success, message, data) ==
    [status |-> status, success |-> success, message |-> message, data |-> data]

IdleReq ==
    [pc |-> "idle", ready |-> FALSE, kind |-> "none", userId |-> "none",
     body |-> [post_id |-> "none"], query |-> NoQuery, result |-> NoResult,
     originalPost |-> Null, postToDelete |-> Null, lastAction |-> Null,
     restoredPost |-> Null, likesCount |-> 0, res |-> NoRes, pre |-> Null,
     prev |-> Null, at |-> 0, during |-> {}, header |-> <<>>]

InFlight == {r \in DOMAIN reqs : reqs[r].pc \notin {"idle", "done"}}

\* The state a handler is entered in, kept to compare with what it leaves;
\* the request record keeps beside it the clock reading of its entry and the
\* requests that were suspended at an await then.
Snapshot ==
    [stacks |-> stacks, posts |-> posts, likes |-> likes, comments |-> comments]

NewReq(kind, userId, body) ==
    [IdleReq EXCEPT !.pc = "start", !.kind = kind, !.userId = userId,
                    !.body = body, !.pre = Snapshot, !.at = clock,
                    !.during = InFlight]

\* What the request answered last in slot r did, when it was an edit or a
\* delete that succeeded: the post as it was before and the user's stack size.
Previous(r) ==
    LET q == reqs[r] IN
    IF q.pc = "done" /\ q.kind \in {"edit", "delete"} /\ q.res.status = 200
    THEN [type |-> q.kind, userId |-> q.userId,
          post |-> IF q.body.post_id \in DOMAIN q.pre.posts
                   THEN q.pre.posts[q.body.post_id] ELSE Null,
          size |-> size(q.pre.stacks, q.userId)]
    ELSE Null

\* What the request answered last in slot r did, an undo that succeeded
\* included: of such an undo, who made it and what was answered before it.
Earlier(r) ==
    LET q == reqs[r] IN
    IF q.pc = "done" /\ q.kind = "undo" /\ q.res.status = 200
    THEN [type |-> "undo", userId |-> q.userId, undid |-> q.prev]
    ELSE Previous(r)

\* await supabase...: the handler sends a query and is suspended
Send(q, pc, query) ==
    [q EXCEPT !.pc = pc, !.ready = FALSE, !.query = query, !.result = NoResult]

FinishSilent(q, res) == [q EXCEPT !.ready = FALSE]

\* return res.status(..).json(..): the handler has answered
Finish(q, res) == [q EXCEPT !.pc = "done", !.ready = FALSE, !.res = res]

\* A new request enters its handler while fewer than limit are in flight.
CanStart(r, limit) ==
    /\ reqs[r].pc \in {"idle", "done"}
    /\ Cardinality(InFlight) < limit

Resumed(r, pc) == reqs[r].pc = pc /\ reqs[r].ready

\* JavaScript: !body.field for a field that is missing or the empty string;
\* a post id is an atom and a content the sequence of its characters
Falsy(body, field, empty) == field \notin DOMAIN body \/ body[field] = empty

\* String.prototype.trim over a string given as its characters
RECURSIVE TrimStart(_)
TrimStart(s) ==
    IF s # <<>> /\ Head(s) = " " THEN TrimStart(Tail(s)) ELSE s

RECURSIVE TrimEnd(_)
TrimEnd(s) ==
    IF s # <<>> /\ s[Len(s)] = " " THEN TrimEnd(SubSeq(s, 1, Len(s) - 1)) ELSE s

TrimNothing(s) == s

Trim(s) == TrimEnd(TrimStart(s))

\* typeof content === 'string': a content that is not a string, an object
\* say, is given as one part that is no character
Chars == {" ", "a", "b"}
IsString(content) == \A i \in 1..Len(content) : content[i] \in Chars
NotAString == <<"[object Object]">>

\* Request bodies
PostIds == {"p1", "p2"}
Contents == {<<>>, <<" ">>, <<" ", "b", " ">>}
EditBodies ==
    {[post_id |-> p, content |-> c] : p \in PostIds, c \in Contents}
        \cup {[post_id |-> "p1"], [content |-> <<" ", "b", " ">>]}
DeleteBodies == {[post_id |-> p] : p \in PostIds} \cup {[content |-> <<>>]}

----------------------------------------------------------------------------
(* authenticateToken, the middleware in front of every handler.  An        *)
(* Authorization header is the sequence of its parts between spaces, the   *)
(* empty sequence when the request has none; a token is what jwt.verify    *)
(* looks at: the payload's userId, whether the signature is made with      *)
(* JWT_SECRET, and whether the token has expired.                          *)

Token(userId, signed, expired) ==
    [userId |-> userId, signed |-> signed, expired |-> expired]

Tokens ==
    {Token(u, TRUE, FALSE) : u \in Actors}
        \cup {Token("u1", FALSE, FALSE), Token("u1", TRUE, TRUE)}

Headers == {<<>>, <<"Bearer">>} \cup {<<"Bearer", t>> : t \in Tokens}

\* jwt.verify throws on a bad signature and on an expired token
verifyToken(token) ==
    IF token.signed /\ ~token.expired THEN [userId |-> token.userId] ELSE Null

authenticateTokenNoReturn(header) ==
    LET token == IF Len(header) >= 2 THEN header[2] ELSE Null IN
    IF token = Null
    THEN [next |-> FALSE, user |-> Null,
          res |-> Res(401, FALSE, "Access token required", Null)]
    ELSE [next |-> TRUE, user |-> verifyToken(token), res |-> NoRes]

\* Either the answer of the middleware or next() with req.user = decoded.
authenticateToken(header) ==
    LET token == IF Len(header) >= 2 THEN header[2] ELSE Null IN
    IF token = Null
    THEN [next |-> FALSE, user |-> Null,
          res |-> Res(401, FALSE, "Access token required", Null)]
    ELSE LET decoded == verifyToken(token) IN
         IF decoded = Null
         THEN [next |-> FALSE, user |-> Null,
               res |-> Res(403, FALSE, "Invalid or expired token", Null)]
         ELSE [next |-> TRUE, user |-> decoded, res |-> NoRes]

\* A request that did not get past the middleware, or whose handler threw at
\* const { userId } = req.user: it is answered at once.
Refused(r, kind, header, res, limit) ==
    /\ CanStart(r, limit)
    /\ reqs' = [reqs EXCEPT ![r] =
          Finish([NewReq(kind, "none", [post_id |-> "none"])
                     EXCEPT !.header = header], res)]
    /\ UNCHANGED <<stacks, storeVars, nfail, clock, clientVars, browserVars>>

----------------------------------------------------------------------------
(* PUT /api/posts/edit *)

StartEdit(r, userId, body, limit) ==
    /\ CanStart(r, limit)
    /\ LET q == NewReq("edit", userId, body) IN
       reqs' = [reqs EXCEPT ![r] =
          IF Falsy(body, "post_id", "") \/ Falsy(body, "content", <<>>)
          THEN Finish(q, Res(400, FALSE, "Post ID and content are required", Null))
          ELSE IF ~IsString(body.content)
          THEN \* content.trim is not a function: the catch block answers
               Finish(q, Res(500, FALSE, "Internal server error", Null))
          ELSE IF Len(Trim(body.content)) = 0
          THEN Finish(q, Res(400, FALSE, "Post content cannot be empty", Null))
          ELSE Send(q, "edit_fetch",
                    [op |-> "select_post", id |-> body.post_id,
                     author_id |-> userId])]
    /\ UNCHANGED <<stacks, storeVars, nfail, clock, clientVars, browserVars>>

EditAfterFetchNoPush(r) ==
    /\ Resumed(r, "edit_fetch")
    /\ LET q == reqs[r]
           fetchError == q.result.error
           originalPost == q.result.data
       IN  IF fetchError # Null \/ originalPost = Null
           THEN reqs' = [reqs EXCEPT ![r] = Finish(q, Res(404, FALSE,
                      "Post not found or you do not have permission to edit it",
                      Null))]
           ELSE reqs' = [reqs EXCEPT ![r] =
                      Send([q EXCEPT !.originalPost = originalPost], "edit_update",
                           [op |-> "update_post", id |-> q.body.post_id,
                            author_id |-> q.userId,
                            content |-> Trim(q.body.content)])]
    /\ UNCHANGED <<stacks, storeVars, nfail, clock, clientVars, browserVars>>

EditAfterFetch(r) ==
    /\ Resumed(r, "edit_fetch")
    /\ LET q == reqs[r]
           fetchError == q.result.error
           originalPost == q.result.data
       IN  IF fetchError # Null \/ originalPost = Null
           THEN /\ reqs' = [reqs EXCEPT ![r] = Finish(q, Res(404, FALSE,
                      "Post not found or you do not have permission to edit it",
                      Null))]
                /\ UNCHANGED stacks
           ELSE /\ stacks' = push(stacks, q.userId,
                      EditAction(originalPost, Trim(q.body.content), clock))
                /\ reqs' = [reqs EXCEPT ![r] =
                      Send([q EXCEPT !.originalPost = originalPost], "edit_update",
                           [op |-> "update_post", id |-> q.body.post_id,
                            author_id |-> q.userId,
                            content |-> Trim(q.body.content)])]
    /\ UNCHANGED <<storeVars, nfail, clock, clientVars, browserVars>>

EditAfterUpdateRollsBack(r) ==
    /\ Resumed(r, "edit_update")
    /\ LET q == reqs[r]
           updateError == q.result.error
           updatedPost == q.result.data
       IN  IF updateError # Null
           THEN /\ stacks' = pop(stacks, q.userId).stacks
                /\ reqs' = [reqs EXCEPT ![r] =
                      Finish(q, Res(500, FALSE, "Failed to update post", Null))]
           ELSE /\ reqs' = [reqs EXCEPT ![r] =
                      Finish(q, Res(200, TRUE, "Post updated successfully",
                          [post |-> updatedPost, undo_available |-> TRUE]))]
                /\ UNCHANGED stacks
    /\ UNCHANGED <<storeVars, nfail, clock, clientVars, browserVars>>

EditAfterUpdate(r) ==
    /\ Resumed(r, "edit_update")
    /\ LET q == reqs[r]
           updateError == q.result.error
           updatedPost == q.result.data
       IN  reqs' = [reqs EXCEPT ![r] =
              IF updateError # Null
              THEN Finish(q, Res(500, FALSE, "Failed to update post", Null))
              ELSE Finish(q, Res(200, TRUE, "Post updated successfully",
                      [post |-> updatedPost, undo_available |-> TRUE]))]
    /\ UNCHANGED <<stacks, storeVars, nfail, clock, clientVars, browserVars>>

----------------------------------------------------------------------------
(* DELETE /api/posts/delete *)

StartDelete(r, userId, body, limit) ==
    /\ CanStart(r, limit)
    /\ LET q == NewReq("delete", userId, body) IN
       reqs' = [reqs EXCEPT ![r] =
          IF Falsy(body, "post_id", "")
          THEN Finish(q, Res(400, FALSE, "Post ID is required", Null))
          ELSE Send(q, "delete_fetch",
                    [op |-> "select_post", id |-> body.post_id,
                     author_id |-> userId])]
    /\ UNCHANGED <<stacks, storeVars, nfail, clock, clientVars, browserVars>>

DeleteAfterFetch(r) ==
    /\ Resumed(r, "delete_fetch")
    /\ LET q == reqs[r]
           fetchError == q.result.error
           postToDelete == q.result.data
       IN  IF fetchError # Null \/ postToDelete = Null
           THEN /\ reqs' = [reqs EXCEPT ![r] = Finish(q, Res(404, FALSE,
                      "Post not found or you do not have permission to delete it",
                      Null))]
                /\ UNCHANGED stacks
           ELSE /\ stacks' = push(stacks, q.userId,
                                  DeleteAction(postToDelete, clock))
                /\ reqs' = [reqs EXCEPT ![r] =
                      Send([q EXCEPT !.postToDelete = postToDelete],
                           "delete_likes",
                           [op |-> "delete_likes", id |-> q.body.post_id])]
    /\ UNCHANGED <<storeVars, nfail, clock, clientVars, browserVars>>

DeleteAfterLikesAborts(r) ==
    /\ Resumed(r, "delete_likes")
    /\ reqs' = [reqs EXCEPT ![r] =
          IF reqs[r].result.error # Null
          THEN Finish(@, Res(500, FALSE, "Failed to delete post", Null))
          ELSE Send(@, "delete_comments",
                    [op |-> "delete_comments", id |-> reqs[r].body.post_id])]
    /\ UNCHANGED <<stacks, storeVars, nfail, clock, clientVars, browserVars>>

\* likesDeleteError is logged only
DeleteAfterLikes(r) ==
    /\ Resumed(r, "delete_likes")
    /\ reqs' = [reqs EXCEPT ![r] =
          Send(@, "delete_comments",
               [op |-> "delete_comments", id |-> reqs[r].body.post_id])]
    /\ UNCHANGED <<stacks, storeVars, nfail, clock, clientVars, browserVars>>

\* commentsDeleteError is logged only
DeleteAfterComments(r) ==
    /\ Resumed(r, "delete_comments")
    /\ reqs' = [reqs EXCEPT ![r] =
          Send(@, "delete_post",
               [op |-> "delete_post", id |-> reqs[r].body.post_id,
                author_id |-> reqs[r].userId])]
    /\ UNCHANGED <<stacks, storeVars, nfail, clock, clientVars, browserVars>>

DeleteAfterPost(r) ==
    /\ Resumed(r, "delete_post")
    /\ LET q == reqs[r]
           deleteError == q.result.error
       IN  reqs' = [reqs EXCEPT ![r] =
              IF deleteError # Null
              THEN Finish(q, Res(500, FALSE, "Failed to delete post", Null))
              ELSE Finish(q, Res(200, TRUE, "Post deleted successfully",
                      [deleted_post_id |-> q.body.post_id,
                       undo_available |-> TRUE]))]
    /\ UNCHANGED <<stacks, storeVars, nfail, clock, clientVars, browserVars>>

----------------------------------------------------------------------------
(* POST /api/posts/undo *)

UndoneData(q, commentsCount, remaining) ==
    [action |-> IF q.lastAction.type = "EDIT" THEN "UNDO_EDIT" ELSE "UNDO_DELETE",
     post |-> [post_id |-> q.restoredPost.id,
               content |-> q.restoredPost.content,
               timestamp |-> q.restoredPost.created_at,
               likes_count |-> q.likesCount,
               comments_count |-> commentsCount],
     remaining_undos |-> remaining]

StartUndo(r, userId, limit) ==
    /\ CanStart(r, limit)
    /\ LET q == [NewReq("undo", userId, [post_id |-> "none"])
                    EXCEPT !.prev = Previous(r)] IN
       IF isEmpty(stacks, userId)
       THEN /\ reqs' = [reqs EXCEPT ![r] =
                  Finish(q, Res(400, FALSE, "No actions to undo", Null))]
            /\ UNCHANGED stacks
       ELSE LET p == pop(stacks, userId)
                lastAction == p.ret
                q1 == [q EXCEPT !.lastAction = lastAction]
            IN  /\ stacks' = p.stacks
                /\ reqs' = [reqs EXCEPT ![r] =
                      IF lastAction = Null
                      THEN Finish(q1, Res(500, FALSE, "Internal server error", Null))
                      ELSE IF lastAction.type = "EDIT"
                      THEN Send(q1, "undo_update",
                                [op |-> "update_post", id |-> lastAction.post_id,
                                 author_id |-> userId,
                                 content |-> lastAction.original_content])
                      ELSE IF lastAction.type = "DELETE"
                      THEN Send(q1, "undo_insert",
                                [op |-> "insert_post",
                                 row |-> Row(lastAction.post.id,
                                             lastAction.post.author_id,
                                             lastAction.post.content,
                                             lastAction.post.likes,
                                             lastAction.post.created_at)])
                      ELSE Finish(q1, Res(400, FALSE, "Unknown action type", Null))]
    /\ UNCHANGED <<storeVars, nfail, clock, clientVars, browserVars>>

UndoAfterRestoreNoPushBack(r, pc, message) ==
    /\ Resumed(r, pc)
    /\ LET q == reqs[r]
           restoreError == q.result.error
           restoredPost == q.result.data
       IN  IF restoreError # Null
           THEN reqs' = [reqs EXCEPT ![r] =
                      Finish(q, Res(500, FALSE, message, Null))]
           ELSE reqs' = [reqs EXCEPT ![r] =
                      Send([q EXCEPT !.restoredPost = restoredPost], "undo_likes",
                           [op |-> "count_likes", id |-> restoredPost.id])]
    /\ UNCHANGED <<stacks, storeVars, nfail, clock, clientVars, browserVars>>

\* The continuation of either restore: push the action back on an error,
\* else count the likes of the restored post.
UndoAfterRestore(r, pc, message) ==
    /\ Resumed(r, pc)
    /\ LET q == reqs[r]
           restoreError == q.result.error
           restoredPost == q.result.data
       IN  IF restoreError # Null
           THEN /\ stacks' = push(stacks, q.userId, q.lastAction)
                /\ reqs' = [reqs EXCEPT ![r] =
                      Finish(q, Res(500, FALSE, message, Null))]
           ELSE /\ reqs' = [reqs EXCEPT ![r] =
                      Send([q EXCEPT !.restoredPost = restoredPost], "undo_likes",
                           [op |-> "count_likes", id |-> restoredPost.id])]
                /\ UNCHANGED stacks
    /\ UNCHANGED <<storeVars, nfail, clock, clientVars, browserVars>>

UndoAfterUpdate(r) == UndoAfterRestore(r, "undo_update", "Failed to undo edit")

UndoAfterInsert(r) == UndoAfterRestore(r, "undo_insert", "Failed to undo delete")

\* likesCount || 0: a count query that failed gives count null, reported as 0
UndoAfterLikes(r) ==
    /\ Resumed(r, "undo_likes")
    /\ reqs' = [reqs EXCEPT ![r] =
          Send([@ EXCEPT !.likesCount = reqs[r].result.count], "undo_comments",
               [op |-> "count_comments", id |-> reqs[r].restoredPost.id])]
    /\ UNCHANGED <<stacks, storeVars, nfail, clock, clientVars, browserVars>>

UndoAfterComments(r) ==
    /\ Resumed(r, "undo_comments")
    /\ LET q == reqs[r]
           commentsCount == q.result.count
       IN  reqs' = [reqs EXCEPT ![r] =
              Finish(q, Res(200, TRUE,
                     IF q.lastAction.type = "EDIT"
                     THEN "Edit undone successfully"
                     ELSE "Delete undone successfully",
                     UndoneData(q, commentsCount, size(stacks, q.userId))))]
    /\ UNCHANGED <<stacks, storeVars, nfail, clock, clientVars, browserVars>>

----------------------------------------------------------------------------
(* GET /api/posts/undo-status *)

StartStatus(r, userId, limit) ==
    /\ CanStart(r, limit)
    /\ LET q == [NewReq("status", userId, [post_id |-> "none"])
                    EXCEPT !.prev = Earlier(r)]
           empty == isEmpty(stacks, userId)
           n == size(stacks, userId)
           lastAction == peek(stacks, userId)
       IN  reqs' = [reqs EXCEPT ![r] =
              Finish(q, Res(200, TRUE, "",
                     [undo_available |-> ~empty,
                      undo_count |-> n,
                      last_action |->
                          IF lastAction # Null
                          THEN [type |-> lastAction.type,
                                timestamp |-> lastAction.timestamp]
                          ELSE Null]))]
    /\ UNCHANGED <<stacks, storeVars, nfail, clock, clientVars, browserVars>>

----------------------------------------------------------------------------
(* The browser page of app.js, for the user u1 who is logged in: the       *)
(* NavigationStack behind the back button, and AppState with its history   *)
(* Stack, its posts and the flag isLoading.  Entries keep what the code    *)
(* reads of them; the timestamp and scrollPosition each entry also gets    *)
(* are written and never read.                                             *)

MaxNav == 3         \* navigation clicks stop at this navigationStack length
MaxHistory == 3     \* clicks that record an action stop at this history length

Pages == {"feed", "profile", "friends", "history"}

\* NavigationStack.updateBackButtonVisibility: the display it gives backBtn
updateBackButtonVisibility(stack) ==
    IF Len(stack) > 1 THEN "flex" ELSE "none"

\* NavigationStack.push
NavPush(stack, page) ==
    LET pushed == Append(stack, [page |-> page])
    IN  [stack |-> pushed, backBtn |-> updateBackButtonVisibility(pushed)]

\* NavigationStack.pop: on an empty stack it returns null and leaves the
\* button as it is.
NavPop(stack, btn) ==
    IF Len(stack) = 0
    THEN [stack |-> stack, backBtn |-> btn, ret |-> Null]
    ELSE [stack |-> Popped(stack),
          backBtn |-> updateBackButtonVisibility(Popped(stack)),
          ret |-> stack[Len(stack)]]

\* NavigationStack.peek
NavPeek(stack) == IF Len(stack) = 0 THEN Null ELSE stack[Len(stack)]

\* The null navigateBack returns in place of a page name.
NoPage == "null"

navigateBackKeepsCurrent(stack, btn) ==
    [stack |-> stack, backBtn |-> btn,
     ret |-> IF Len(stack) = 0 THEN NoPage ELSE stack[Len(stack)].page]

\* NavigationStack.navigateBack
navigateBack(stack, btn) ==
    LET p == NavPop(stack, btn)
        previousPage == NavPeek(p.stack)
    IN  [stack |-> p.stack, backBtn |-> p.backBtn,
         ret |-> IF Len(p.stack) = 0 THEN NoPage
                 ELSE IF previousPage # Null THEN previousPage.page
                 ELSE NoPage]

\* class Stack of app.js, the history: push and pop
HistoryPush(S, element) ==
    [S EXCEPT !.historyStack = Append(S.historyStack, element)]

HistoryPop(S) ==
    IF Len(S.historyStack) = 0
    THEN [state |-> S, ret |-> Null]
    ELSE [state |-> [S EXCEPT !.historyStack = Popped(S.historyStack)],
          ret |-> S.historyStack[Len(S.historyStack)]]

Idle == [pc |-> "idle", postId |-> "none", isLiked |-> FALSE,
         caller |-> "none", last |-> "none", ret |-> NoPage, undone |-> Null,
         wasLiked |-> FALSE]

\* The page after DOMContentLoaded: navigationStack.push('feed') on the
\* default page, u1 logged in with the post p1 in the feed.
PageLoaded ==
    /\ navigationStack = NavPush(<<>>, "feed").stack
    /\ backBtn = NavPush(<<>>, "feed").backBtn
    /\ activePage = "feed"
    /\ AppState = [currentUser |-> [id |-> "u1"],
                   postsQueue |-> [id \in {"p1"} |-> [likedBy |-> {"u2"}]],
                   historyStack |-> <<>>,
                   isLoading |-> FALSE]
    /\ task = Idle

\* handleNavigation: a click on the nav link of a page
handleNavigation(page) ==
    /\ Len(navigationStack) < MaxNav
    /\ Len(AppState.historyStack) < MaxHistory
    /\ AppState' = HistoryPush(AppState, [action |-> "navigate", page |-> page])
    /\ activePage' = page
    /\ LET n == NavPush(navigationStack, page) IN
        /\ navigationStack' = n.stack
        /\ backBtn' = n.backBtn
    /\ task' = [task EXCEPT !.last = "navigate", !.ret = NoPage]
    /\ UNCHANGED <<stacks, storeVars, reqs, nfail, clock, clientVars>>

\* handleBackNavigation: a click on backBtn, which takes clicks only while
\* it is displayed; navigateToPage shows the page navigateBack returned.
handleBackNavigation ==
    /\ backBtn = "flex"
    /\ LET b == navigateBack(navigationStack, backBtn) IN
        /\ navigationStack' = b.stack
        /\ backBtn' = b.backBtn
        /\ activePage' = IF b.ret = NoPage THEN activePage ELSE b.ret
        /\ task' = [task EXCEPT !.last = "back", !.ret = b.ret]
    /\ UNCHANGED <<stacks, storeVars, reqs, nfail, clock, clientVars, AppState>>

\* toggleLike up to its first await: it returns at once while isLoading is
\* set, without a user, or for a post the feed does not hold; otherwise it
\* sets isLoading and suspends at the fetch of /posts/like or /posts/unlike.
toggleLike(S, postId) ==
    IF S.isLoading \/ S.currentUser = Null
    THEN [suspended |-> FALSE, state |-> S, isLiked |-> FALSE]
    ELSE IF postId \notin DOMAIN S.postsQueue
    THEN [suspended |-> FALSE, state |-> S, isLiked |-> FALSE]
    ELSE [suspended |-> TRUE,
          state |-> [S EXCEPT !.isLoading = TRUE],
          isLiked |-> S.currentUser.id \in S.postsQueue[postId].likedBy]

\* The likes row of the user for the post.
LikeRow(postId, userId) == [post_id |-> postId, user_id |-> userId]

\* A click on the like button of a post.
ToggleLikeClick(postId) ==
    /\ Len(AppState.historyStack) < MaxHistory
    /\ LET t == toggleLike(AppState, postId) IN
        /\ AppState' = t.state
        /\ task' = IF t.suspended
                   THEN [Idle EXCEPT !.pc = "toggle_fetch", !.postId = postId,
                                     !.isLiked = t.isLiked, !.caller = "click",
                                     !.last = "like"]
                   ELSE task
    /\ UNCHANGED <<stacks, storeVars, reqs, nfail, clock, clientVars,
                   navigationStack, backBtn, activePage>>

\* The fetch of toggleLike comes back: with response.ok the server has
\* inserted or deleted the likes row and the page updates likedBy and pushes
\* the action to the history; otherwise, or when fetch throws, nothing
\* changes.  finally resets isLoading, and so does the finally of performUndo
\* when it was the caller.
ToggleLikeResponse ==
    /\ task.pc = "toggle_fetch"
    /\ \E outcome \in {"ok", "not_ok", "throws"} :
        LET P == task.postId
            u == AppState.currentUser.id
            post == AppState.postsQueue[P]
            liked == IF task.isLiked THEN post.likedBy \ {u}
                     ELSE post.likedBy \cup {u}
            S1 == IF outcome = "ok"
                  THEN HistoryPush(
                           [AppState EXCEPT !.postsQueue[P].likedBy = liked],
                           [action |-> IF task.isLiked THEN "unlike_post"
                                       ELSE "like_post",
                            postId |-> P])
                  ELSE AppState
        IN  /\ likes' = IF outcome # "ok" THEN likes
                        ELSE IF task.isLiked THEN likes \ {LikeRow(P, u)}
                        ELSE likes \cup {LikeRow(P, u)}
            /\ AppState' = [S1 EXCEPT !.isLoading = FALSE]
            /\ task' = [task EXCEPT !.pc = "idle",
                           !.last = IF task.caller = "undo" THEN "undo"
                                    ELSE "like"]
    /\ UNCHANGED <<stacks, posts, comments, reqs, nfail, clock, clientVars,
                   navigationStack, backBtn, activePage>>

\* performUndo: a click on undo.  It returns while isLoading is set; it pops
\* the history, sets isLoading and, for like_post and unlike_post, awaits
\* toggleLike(postId); a navigate action is the default case of its switch.
\* The await of a toggleLike that returned at once resumes before any other
\* event, and finally resets isLoading.
performUndo ==
    /\ ~AppState.isLoading
    /\ LET h == HistoryPop(AppState)
           lastAction == h.ret
           S2 == [h.state EXCEPT !.isLoading = TRUE]
           ghost == [Idle EXCEPT !.last = "undo", !.undone = lastAction]
       IN  IF lastAction = Null
           THEN /\ AppState' = h.state
                /\ task' = ghost
           ELSE IF lastAction.action \in {"like_post", "unlike_post"}
           THEN LET t == toggleLike(S2, lastAction.postId)
                    was == LikeRow(lastAction.postId, S2.currentUser.id) \in likes
                IN  IF t.suspended
                    THEN /\ AppState' = t.state
                         /\ task' = [ghost EXCEPT !.pc = "toggle_fetch",
                                        !.postId = lastAction.postId,
                                        !.isLiked = t.isLiked,
                                        !.caller = "undo",
                                        !.wasLiked = was]
                    ELSE /\ AppState' = [t.state EXCEPT !.isLoading = FALSE]
                         /\ task' = [ghost EXCEPT !.wasLiked = was]
           ELSE /\ AppState' = [S2 EXCEPT !.isLoading = FALSE]
                /\ task' = ghost
    /\ UNCHANGED <<stacks, storeVars, reqs, nfail, clock, clientVars,
                   navigationStack, backBtn, activePage>>

----------------------------------------------------------------------------
(* The state when the server has started: const undoStack = new UndoStack() *)
(* and the database as it was left.                                        *)

Init ==
    /\ stacks = EmptyMap
    /\ posts = [id \in {"p1"} |-> P1Row]
    /\ likes = {[post_id |-> "p1", user_id |-> "u2"]}
    /\ comments = {[post_id |-> "p1", id |-> "c1"]}
    /\ reqs = [r \in Slots |-> IdleReq]
    /\ nfail = 0
    /\ clock = 0
    /\ call = NoCall
    /\ run = NoRun
    /\ PageLoaded

\* Direct calls of the UndoStack methods in any order.
StackNext ==
    \/ \E u \in Actors : CallPush(u)
    \/ \E u \in Actors : CallPop(u)
    \/ \E u \in Actors : CallPushBack(u)
    \/ \E u \in Actors : CallObserve(u)
    \/ \E u \in Actors : CallClear(u)
    \/ Tick

StackSpec == Init /\ [][StackNext]_vars

\* A step of the store or of a handler's continuation.
Step(r) ==
    \/ StoreSelectPost(r)
    \/ StoreUpdatePost(r)
    \/ StoreInsertPost(r)
    \/ StoreDeleteLikes(r)
    \/ StoreDeleteComments(r)
    \/ StoreDeletePost(r)
    \/ StoreCountLikes(r)
    \/ StoreCountComments(r)
    \/ EditAfterFetch(r)
    \/ EditAfterUpdate(r)
    \/ DeleteAfterFetch(r)
    \/ DeleteAfterLikes(r)
    \/ DeleteAfterComments(r)
    \/ DeleteAfterPost(r)
    \/ UndoAfterUpdate(r)
    \/ UndoAfterInsert(r)
    \/ UndoAfterLikes(r)
    \/ UndoAfterComments(r)

\* Requests handled one at a time: a request enters its handler only when
\* the one before it has been answered.  All of them fall within one reading
\* of the clock.
SeqNext ==
    \/ \E r \in Slots, u \in Actors, b \in EditBodies : StartEdit(r, u, b, 1)
    \/ \E r \in Slots, u \in Actors, b \in DeleteBodies : StartDelete(r, u, b, 1)
    \/ \E r \in Slots, u \in Actors : StartUndo(r, u, 1)
    \/ \E r \in Slots, u \in Actors : StartStatus(r, u, 1)
    \/ \E r \in Slots : Step(r)

SeqSpec == Init /\ [][SeqNext]_vars

\* Two requests of u1 on the post p1 in their handlers at once: the second
\* enters while the first is suspended at an await, and the store answers
\* them in any order.  They meet the state that n edits of p1, and then
\* possibly a delete of p1, all by u1 and all answered, have left behind.
ConcSlots == {1, 2}

ConcEdit == [post_id |-> "p1", content |-> <<" ", "b", " ">>]
ConcDelete == [post_id |-> "p1"]

RECURSIVE AfterEdits(_)
AfterEdits(n) ==
    IF n = 0
    THEN [stacks |-> EmptyMap, row |-> P1Row]
    ELSE LET s == AfterEdits(n - 1)
             newContent == Trim(ConcEdit.content)
         IN  [stacks |-> push(s.stacks, "u1", EditAction(s.row, newContent, 0)),
              row |-> [s.row EXCEPT !.content = newContent]]

ConcDepths == {0, 2, StackLimit}

ConcInit ==
    /\ \E n \in ConcDepths, deleted \in BOOLEAN :
          LET s == AfterEdits(n) IN
          IF deleted
          THEN /\ stacks = push(s.stacks, "u1", DeleteAction(s.row, 0))
               /\ posts = MapDelete([id \in {"p1"} |-> s.row], "p1")
               /\ likes = {}
               /\ comments = {}
          ELSE /\ stacks = s.stacks
               /\ posts = [id \in {"p1"} |-> s.row]
               /\ likes = {[post_id |-> "p1", user_id |-> "u2"]}
               /\ comments = {[post_id |-> "p1", id |-> "c1"]}
    /\ reqs = [r \in ConcSlots |-> IdleReq]
    /\ nfail = 0
    /\ clock = 0
    /\ call = NoCall
    /\ run = NoRun
    /\ PageLoaded

\* Slot r has served no request yet.
Unused(r) == reqs[r].pc = "idle"

ConcNext ==
    \/ \E r \in ConcSlots : Unused(r) /\ StartEdit(r, "u1", ConcEdit, 2)
    \/ \E r \in ConcSlots : Unused(r) /\ StartDelete(r, "u1", ConcDelete, 2)
    \/ \E r \in ConcSlots : Unused(r) /\ StartUndo(r, "u1", 2)
    \/ \E r \in ConcSlots : Unused(r) /\ StartStatus(r, "u1", 2)
    \/ \E r \in ConcSlots : Step(r)
    \/ Tick

ConcSpec == ConcInit /\ [][ConcNext]_vars

\* app.put / app.delete / app.post / app.get (path, authenticateToken,
\* handler): a request of the given kind goes through the middleware and,
\* when that calls next(), into its handler.
Route(r, kind, header, body, limit) ==
    LET a == authenticateToken(header) IN
    IF ~a.next
    THEN Refused(r, kind, header, a.res, limit)
    ELSE IF a.user = Null
    THEN Refused(r, kind, header,
                 Res(500, FALSE, "Internal server error", Null), limit)
    ELSE \/ kind = "edit" /\ StartEdit(r, a.user.userId, body, limit)
         \/ kind = "delete" /\ StartDelete(r, a.user.userId, body, limit)
         \/ kind = "undo" /\ StartUndo(r, a.user.userId, limit)
         \/ kind = "status" /\ StartStatus(r, a.user.userId, limit)

\* Requests on the post p1 handled one at a time, each coming in through the
\* middleware with any Authorization header or none.
AuthNext ==
    \/ \E r \in Slots, h \in Headers : Route(r, "edit", h, ConcEdit, 1)
    \/ \E r \in Slots, h \in Headers : Route(r, "delete", h, ConcDelete, 1)
    \/ \E r \in Slots, h \in Headers :
          Route(r, "undo", h, [post_id |-> "none"], 1)
    \/ \E r \in Slots, h \in Headers :
          Route(r, "status", h, [post_id |-> "none"], 1)
    \/ \E r \in Slots : Step(r)

AuthSpec == Init /\ [][AuthNext]_vars

\* Requests handled one at a time where u1 owns a second post, p3, besides
\* p1: u1 deletes p1, edits p3, and both users undo.
P3Row == Row("p3", "u1", <<"a">>, 0, 0)

EvictInit ==
    /\ stacks = EmptyMap
    /\ posts = [id \in {"p1", "p3"} |-> IF id = "p1" THEN P1Row ELSE P3Row]
    /\ likes = {[post_id |-> "p1", user_id |-> "u2"]}
    /\ comments = {[post_id |-> "p1", id |-> "c1"]}
    /\ reqs = [r \in Slots |-> IdleReq]
    /\ nfail = 0
    /\ clock = 0
    /\ call = NoCall
    /\ run = NoRun
    /\ PageLoaded

EvictEdit == [post_id |-> "p3", content |-> <<" ", "b", " ">>]

EvictNext ==
    \/ \E r \in Slots : StartEdit(r, "u1", EvictEdit, 1)
    \/ \E r \in Slots : StartDelete(r, "u1", ConcDelete, 1)
    \/ \E r \in Slots, u \in Actors : StartUndo(r, u, 1)
    \/ \E r \in Slots : Step(r)

EvictSpec == EvictInit /\ [][EvictNext]_vars

\* Requests handled one at a time, an edit whose content is not a string
\* among them.  The store answers every query, with a result or an error,
\* and the event loop runs every continuation that is ready.
FairNext ==
    \/ \E r \in Slots, u \in Actors, b \in EditBodies : StartEdit(r, u, b, 1)
    \/ \E r \in Slots, u \in Actors :
          StartEdit(r, u, [post_id |-> "p1", content |-> NotAString], 1)
    \/ \E r \in Slots, u \in Actors, b \in DeleteBodies : StartDelete(r, u, b, 1)
    \/ \E r \in Slots, u \in Actors : StartUndo(r, u, 1)
    \/ \E r \in Slots, u \in Actors : StartStatus(r, u, 1)
    \/ \E r \in Slots : Step(r)

FairSpec ==
    /\ Init
    /\ [][FairNext]_vars
    /\ \A r \in Slots : WF_vars(Step(r))

\* Two users with a post and recorded actions each: u1 has edited p1 n times
\* and u2 has edited the own post p4 once.  Two requests, of either user and
\* on either post, are served one after the other, and a caller in the process may
\* clear a user's actions at any moment.
P4Row == Row("p4", "u2", <<"a">>, 0, 0)

FrameEdit == [post_id |-> "p4", content |-> <<" ", "b", " ">>]
FrameDelete == [post_id |-> "p4"]

FrameInit ==
    /\ \E n \in {0, StackLimit} :
          LET s == AfterEdits(n)
              newContent == Trim(FrameEdit.content)
          IN  /\ stacks = push(s.stacks, "u2", EditAction(P4Row, newContent, 0))
              /\ posts = [id \in {"p1", "p4"} |->
                             IF id = "p1" THEN s.row
                             ELSE [P4Row EXCEPT !.content = newContent]]
    /\ likes = {[post_id |-> "p1", user_id |-> "u2"]}
    /\ comments = {[post_id |-> "p1", id |-> "c1"]}
    /\ reqs = [r \in ConcSlots |-> IdleReq]
    /\ nfail = 0
    /\ clock = 0
    /\ call = NoCall
    /\ run = NoRun
    /\ PageLoaded

FrameNext ==
    \/ \E r \in ConcSlots, u \in Actors, b \in {ConcEdit, FrameEdit} :
           Unused(r) /\ StartEdit(r, u, b, 1)
    \/ \E r \in ConcSlots, u \in Actors, b \in {ConcDelete, FrameDelete} :
           Unused(r) /\ StartDelete(r, u, b, 1)
    \/ \E r \in ConcSlots, u \in Actors : Unused(r) /\ StartUndo(r, u, 1)
    \/ \E r \in ConcSlots, u \in Actors : Unused(r) /\ StartStatus(r, u, 1)
    \/ \E r \in ConcSlots : Step(r)
    \/ \E u \in Actors : CallClear(u)

FrameSpec == FrameInit /\ [][FrameNext]_vars

\* The clicks of u1 on the page, in any order.
ClientNext ==
    \/ \E page \in Pages : handleNavigation(page)
    \/ handleBackNavigation
    \/ \E postId \in {"p1"} : ToggleLikeClick(postId)
    \/ ToggleLikeResponse
    \/ performUndo

ClientSpec == Init /\ [][ClientNext]_vars

----------------------------------------------------------------------------
(* Properties of the UndoStack under direct calls (StackSpec) *)

\* C2: in every reachable state every user's array in the UndoStack holds at
\* most 10 actions, whatever pushes, pops, push-backs, reads and clears came
\* before.
C2_AtMostTen == \A u \in DOMAIN stacks : Len(stacks[u]) <= StackLimit

\* A push has just been made to a user who already held 10 actions.
C2_Witness ==
    /\ call.op = "push"
    /\ size(call.before, call.userId) = StackLimit
    /\ size(stacks, call.userId) = StackLimit

\* C3: for a user who had no actions, after n <= 10 pushes size is n; after
\* an 11th push size is 10 and the array is pushes 2..11 (the first one pushed
\* is the one evicted); the pops that follow return pushes 11, 10, ..., 2 in
\* that order, then null, and never the first push.
C3_PushesThenPops ==
    (run.ok /\ Len(run.pushed) <= StackLimit + 1) =>
        LET u == run.userId
            n == Len(run.pushed)
            k == Len(run.popped)
            kept == Min(n, StackLimit)
        IN  /\ size(stacks, u) = Max(kept - k, 0)
            /\ k = 0 => ActionsOf(stacks, u) = SubSeq(run.pushed, n - kept + 1, n)
            /\ \A i \in 1..k :
                  run.popped[i] = IF i <= kept THEN run.pushed[n + 1 - i] ELSE Null
            /\ (n = StackLimit + 1 /\ \A j \in 2..n : run.pushed[j] # run.pushed[1])
                  => \A i \in 1..k : run.popped[i] # run.pushed[1]

\* Eleven pushes, the first at another clock reading than the rest, then ten
\* pops.
C3_Witness ==
    /\ run.ok
    /\ Len(run.pushed) = StackLimit + 1
    /\ Len(run.popped) = StackLimit
    /\ \A j \in 2..(StackLimit + 1) : run.pushed[j] # run.pushed[1]
    /\ isEmpty(stacks, run.userId)

\* C4: pop on a non-empty array returns its last (most recently pushed)
\* action and removes exactly that one, the others keeping their order; peek
\* returns the same action and changes nothing; on an empty or absent array
\* both return null and change nothing.
C4_PopPeek ==
    LET u == call.userId
        b == ActionsOf(call.before, u)
    IN  /\ call.op = "pop" =>
              IF b # <<>>
              THEN /\ call.ret = b[Len(b)]
                   /\ stacks = MapSet(call.before, u, SubSeq(b, 1, Len(b) - 1))
                   /\ size(stacks, u) = Len(b) - 1
              ELSE call.ret = Null /\ stacks = call.before
        /\ call.op = "observe" =>
              /\ call.ret.peek = IF b # <<>> THEN b[Len(b)] ELSE Null
              /\ stacks = call.before

\* A pop from an array whose oldest and newest action differ.
C4_Witness ==
    LET b == ActionsOf(call.before, call.userId) IN
    /\ call.op = "pop"
    /\ Len(b) >= 2
    /\ b[1] # b[Len(b)]
    /\ call.ret = b[Len(b)]

\* C5: pop followed at once by push of the popped action restores the whole
\* array, and with it peek and size, to what they were before the pop, for
\* every size 1..10; that push evicts nothing.
C5_PopPushRestores ==
    call.op = "pushback" =>
        /\ stacks = call.before
        /\ peek(stacks, call.userId) = peek(call.before, call.userId)
        /\ size(stacks, call.userId) = size(call.before, call.userId)

\* The popped action has been pushed back onto what was a full array.
C5_Witness ==
    /\ call.op = "pushback"
    /\ size(call.before, call.userId) = StackLimit

\* C6: a user with no actions, whether the Map has no entry (never pushed
\* to, or cleared) or an empty array (emptied by pops), gets isEmpty true,
\* size 0, null from peek and from pop, and an array of exactly the pushed
\* action from a push.
C6_AbsentIsEmpty ==
    LET u == call.userId IN
    (call.op # "none" /\ ActionsOf(call.before, u) = <<>>) =>
        /\ call.op = "observe" =>
              /\ call.ret.isEmpty = TRUE
              /\ call.ret.size = 0
              /\ call.ret.peek = Null
        /\ call.op = "pop" => call.ret = Null /\ ActionsOf(stacks, u) = <<>>
        /\ call.op = "push" => ActionsOf(stacks, u) = <<call.arg>>

\* A read of a user whose entry holds an empty array, left by pops, while
\* the other user has no entry.
C6_Witness ==
    /\ call.op = "observe"
    /\ MapHas(call.before, call.userId)
    /\ call.before[call.userId] = <<>>
    /\ \E u \in Actors : ~MapHas(stacks, u)

----------------------------------------------------------------------------
(* Properties of the handlers when requests are handled one at a time      *)
(* (SeqSpec).  A request that has been answered stays in its slot, with    *)
(* the state it was entered in, until the next one enters.                 *)

Answered(q, kind) == q.pc = "done" /\ q.kind = kind

StoreUnchangedSince(q) ==
    posts = q.pre.posts /\ likes = q.pre.likes /\ comments = q.pre.comments

\* The restore of an undo (the update of an EDIT, the insert of a DELETE)
\* came back with an error.
RestoreFailed(q) ==
    /\ Answered(q, "undo")
    /\ q.query.op \in {"update_post", "insert_post"}
    /\ q.result.error # Null

\* C1: an undo whose restoring update or insert returns an error answers 500
\* and leaves the UndoStack as it was when the request came in: the same
\* actions in the same order.
C1_FailedUndoKeepsStack ==
    \A r \in Slots :
        RestoreFailed(reqs[r]) =>
            /\ reqs[r].res.status = 500
            /\ reqs[r].res.success = FALSE
            /\ stacks = reqs[r].pre.stacks

\* The update of an EDIT failed for a user who held 10 actions.
C1_Witness ==
    \E r \in Slots :
        /\ RestoreFailed(reqs[r])
        /\ reqs[r].lastAction.type = "EDIT"
        /\ size(reqs[r].pre.stacks, reqs[r].userId) = StackLimit

\* An undo by the user whose edit (or delete) of kind type succeeded directly
\* before it, itself answered with success.
UndoneDirectly(q, type) ==
    /\ Answered(q, "undo")
    /\ q.res.status = 200
    /\ q.prev.type = type
    /\ q.prev.userId = q.userId

\* C7 as claimed: after a successful edit and a directly following successful
\* undo the post has the content it had before the edit, and remaining_undos
\* is the stack size s before the edit's push, for every s in 0..10.
C7_Original ==
    \A r \in Slots :
        LET q == reqs[r] IN
        UndoneDirectly(q, "edit") =>
            /\ q.prev.post.id \in DOMAIN posts
            /\ posts[q.prev.post.id].content = q.prev.post.content
            /\ q.res.data.remaining_undos = q.prev.size

\* C7 amended: the content is restored for every s in 0..10; remaining_undos
\* is s for s in 0..9 and 9 for s = 10, where the edit's push evicted the
\* oldest action.
C7_EditUndoRoundTrip ==
    \A r \in Slots :
        LET q == reqs[r] IN
        UndoneDirectly(q, "edit") =>
            /\ q.prev.post.id \in DOMAIN posts
            /\ posts[q.prev.post.id].content = q.prev.post.content
            /\ q.res.data.remaining_undos = Min(q.prev.size, StackLimit - 1)

\* An edit made with 10 actions on the stack has been undone.
C7_Witness ==
    \E r \in Slots :
        /\ UndoneDirectly(reqs[r], "edit")
        /\ reqs[r].prev.size = StackLimit
        /\ reqs[r].res.data.action = "UNDO_EDIT"

\* C8: after a successful delete of post P and a directly following
\* successful undo the posts table holds a row with id P and the owner,
\* content and created-at the post had before the delete, and no row under
\* another id has been added.
C8_DeleteUndoRoundTrip ==
    \A r \in Slots :
        LET q == reqs[r]
            P == q.prev.post.id
        IN  UndoneDirectly(q, "delete") =>
                /\ P \in DOMAIN posts
                /\ posts[P].id = P
                /\ posts[P].author_id = q.prev.post.author_id
                /\ posts[P].content = q.prev.post.content
                /\ posts[P].created_at = q.prev.post.created_at
                /\ DOMAIN posts = DOMAIN q.pre.posts \cup {P}
                /\ q.res.data.post.post_id = P

\* A delete of p1 has been undone.
C8_Witness ==
    \E r \in Slots :
        /\ UndoneDirectly(reqs[r], "delete")
        /\ reqs[r].res.data.action = "UNDO_DELETE"
        /\ "p1" \in DOMAIN posts
        /\ "p1" \notin DOMAIN reqs[r].pre.posts

\* C9: an undo by a user whose array is empty or absent answers 400 "No
\* actions to undo", sends no query to the store, and leaves the UndoStack
\* and the tables as they were.
C9_NothingToUndo ==
    \A r \in Slots :
        LET q == reqs[r] IN
        (Answered(q, "undo") /\ ActionsOf(q.pre.stacks, q.userId) = <<>>) =>
            /\ q.res.status = 400
            /\ q.res.message = "No actions to undo"
            /\ q.query = NoQuery
            /\ stacks = q.pre.stacks
            /\ StoreUnchangedSince(q)

\* An undo by a user whose array had been emptied by earlier undos.
C9_Witness ==
    \E r \in Slots :
        LET q == reqs[r] IN
        /\ Answered(q, "undo")
        /\ MapHas(q.pre.stacks, q.userId)
        /\ q.pre.stacks[q.userId] = <<>>
        /\ q.res.status = 400

\* The request passed the validation of its handler.
ValidBody(q) ==
    /\ ~Falsy(q.body, "post_id", "")
    /\ q.kind = "edit" =>
          ~Falsy(q.body, "content", <<>>) /\ Len(Trim(q.body.content)) > 0

\* The post named by the request was missing or owned by another user when
\* the request came in.
NotOwnPost(q) ==
    \/ q.body.post_id \notin DOMAIN q.pre.posts
    \/ q.pre.posts[q.body.post_id].author_id # q.userId

\* C10: an edit or delete of a post that belongs to another user, or of a post
\* that does not exist, answers 404, pushes no action to any user's array, and
\* leaves posts, likes and comments unchanged.
C10_NotOwnerNotFound ==
    \A r \in Slots :
        LET q == reqs[r] IN
        (q.pc = "done" /\ q.kind \in {"edit", "delete"} /\ ValidBody(q)
            /\ NotOwnPost(q)) =>
            /\ q.res.status = 404
            /\ stacks = q.pre.stacks
            /\ StoreUnchangedSince(q)

\* u2 has asked to edit p1, the post of u1, while u1 held undo actions.
C10_Witness ==
    \E r \in Slots :
        LET q == reqs[r] IN
        /\ q.pc = "done" /\ q.kind = "edit" /\ q.userId = "u2"
        /\ ValidBody(q)
        /\ q.body.post_id = "p1"
        /\ "p1" \in DOMAIN q.pre.posts
        /\ q.pre.posts["p1"].author_id = "u1"
        /\ size(stacks, "u1") > 0
        /\ q.res.status = 404


\* The content consists of white space only (the empty content included).
Blank(s) == \A i \in 1..Len(s) : s[i] = " "

\* The body lacks what the handler of the request requires.
InvalidBody(q) ==
    \/ Falsy(q.body, "post_id", "")
    \/ /\ q.kind = "edit"
       /\ \/ Falsy(q.body, "content", <<>>)
          \/ Blank(q.body.content)

\* C11: an edit whose body has no post id, no content, or a content that is
\* empty after trimming, and a delete whose body has no post id, is answered
\* 400 in the handler's first step: it sends no query to the store and leaves
\* the UndoStack and the tables as they were.
C11_InvalidBodyRejected ==
    \A r \in Slots :
        LET q == reqs[r] IN
        (q.kind \in {"edit", "delete"} /\ InvalidBody(q)) =>
            /\ q.pc = "done"
            /\ q.res.status = 400
            /\ q.res.success = FALSE
            /\ q.query = NoQuery
            /\ stacks = q.pre.stacks
            /\ StoreUnchangedSince(q)

\* u1, holding undo actions, has asked to edit the own post p1 with a content
\* of one space.
C11_Witness ==
    \E r \in Slots :
        LET q == reqs[r] IN
        /\ Answered(q, "edit") /\ q.userId = "u1"
        /\ q.body = [post_id |-> "p1", content |-> <<" ">>]
        /\ "p1" \in DOMAIN posts
        /\ size(stacks, "u1") > 0
        /\ q.res.message = "Post content cannot be empty"


\* What undo-status reports of an array of actions.
StatusOf(stack) ==
    [undo_available |-> Len(stack) > 0,
     undo_count |-> Len(stack),
     last_action |-> IF stack = <<>> THEN Null
                     ELSE [type |-> stack[Len(stack)].type,
                           timestamp |-> stack[Len(stack)].timestamp]]

\* C12: undo-status changes no array of the UndoStack and no table, and
\* reports of the requesting user only: undo_available = (size > 0),
\* undo_count = size, last_action = the type and timestamp of the top action
\* and nothing else of it (none when there is no action).  Directly after a
\* successful edit made on an empty stack it reports true, 1, EDIT, and
\* directly after the successful undo of that edit false, 0, none.
C12_StatusReports ==
    \A r \in Slots :
        LET q == reqs[r]
            u == q.userId
            d == q.res.data
        IN  Answered(q, "status") =>
                /\ q.res.status = 200
                /\ q.query = NoQuery
                /\ stacks = q.pre.stacks
                /\ StoreUnchangedSince(q)
                /\ d = StatusOf(ActionsOf(q.pre.stacks, u))
                /\ (q.prev.type = "edit" /\ q.prev.userId = u /\ q.prev.size = 0) =>
                      /\ d.undo_available = TRUE
                      /\ d.undo_count = 1
                      /\ d.last_action.type = "EDIT"
                /\ (/\ q.prev.type = "undo" /\ q.prev.userId = u
                    /\ q.prev.undid.type = "edit" /\ q.prev.undid.userId = u
                    /\ q.prev.undid.size = 0) =>
                      /\ d.undo_available = FALSE
                      /\ d.undo_count = 0
                      /\ d.last_action = Null

\* u1 has asked for the status directly after the undo of the edit u1 made
\* on an empty stack.
C12_Witness ==
    \E r \in Slots :
        LET q == reqs[r] IN
        /\ Answered(q, "status") /\ q.userId = "u1"
        /\ q.prev.type = "undo" /\ q.prev.userId = "u1"
        /\ q.prev.undid.type = "edit" /\ q.prev.undid.userId = "u1"
        /\ q.prev.undid.size = 0
        /\ q.res.data.undo_count = 0

\* u1 has asked for the status with a DELETE on top of an EDIT, and u2 with
\* no action of its own while u1 holds some.
C12_WitnessTop ==
    \E r \in Slots :
        LET q == reqs[r]
            s == ActionsOf(q.pre.stacks, "u1")
        IN  /\ Answered(q, "status")
            /\ Len(s) >= 2 /\ s[1].type = "EDIT" /\ s[Len(s)].type = "DELETE"
            /\ q.userId = "u1" => q.res.data.last_action.type = "DELETE"
            /\ q.userId = "u2" => q.res.data.undo_count = 0


\* An undo answered with success.
UndoSucceeded(q) == Answered(q, "undo") /\ q.res.status = 200

\* C13 as claimed: in every successful undo likes_count and comments_count of
\* the answer are the numbers of rows the likes and comments tables hold for
\* the restored post (requests are handled one at a time, so the tables are
\* still as the undo queried them), never a number taken from the action.
C13_LiveCounts ==
    \A r \in Slots :
        LET q == reqs[r]
            P == q.res.data.post.post_id
        IN  UndoSucceeded(q) =>
                /\ q.res.data.post.likes_count =
                      Cardinality({l \in likes : l.post_id = P})
                /\ q.res.data.post.comments_count =
                      Cardinality({c \in comments : c.post_id = P})


----------------------------------------------------------------------------
(* Properties of two requests of u1 that are in their handlers at once     *)
(* (ConcSpec).                                                             *)

\* The edit or delete has recorded its action.
HasPushed(q) ==
    \/ q.kind = "edit" /\ q.originalPost # Null
    \/ q.kind = "delete" /\ q.postToDelete # Null

\* The action is the one the edit or delete q records, whatever its timestamp.
Matches(action, q) ==
    IF q.kind = "edit"
    THEN /\ action.type = "EDIT"
         /\ action.post_id = q.body.post_id
         /\ action.original_content = q.originalPost.content
         /\ action.new_content = Trim(q.body.content)
    ELSE /\ action.type = "DELETE"
         /\ action.post.id = q.body.post_id
         /\ action.post.content = q.postToDelete.content

\* C14 as claimed: when two edit or delete requests of u1 have both recorded
\* their action, the action of the one that entered its handler at the earlier
\* clock reading lies directly below the action of the other, on top of the
\* actions the earlier one found.
C14_ArrivalOrder ==
    \A r1, r2 \in ConcSlots :
        LET q1 == reqs[r1]
            q2 == reqs[r2]
            S == ActionsOf(q1.pre.stacks, "u1")
            now == ActionsOf(stacks, "u1")
            n == Len(S)
        IN  (HasPushed(q1) /\ HasPushed(q2) /\ q1.at < q2.at
                /\ n + 2 <= StackLimit) =>
                /\ now = S \o SubSeq(now, n + 1, n + 2)
                /\ Matches(now[n + 1], q1)
                /\ Matches(now[n + 2], q2)

\* C14 amended: an edit or delete records its action in the step in which its
\* handler resumes from the fetch, on top of the actions the stack holds in
\* that step (less the oldest one when these are 10), so two actions lie in
\* the order in which the handlers resumed, whichever entered first.
C14_ResumeOrder ==
    [][\A r \in ConcSlots :
          LET old == ActionsOf(stacks, "u1")
              new == ActionsOf(stacks', "u1")
          IN  (~HasPushed(reqs[r]) /\ HasPushed(reqs'[r])) =>
                /\ Len(new) > 0
                /\ Matches(new[Len(new)], reqs'[r])
                /\ new[Len(new)].timestamp = clock
                /\ SubSeq(new, 1, Len(new) - 1) =
                      IF Len(old) < StackLimit THEN old ELSE Shifted(old)]_vars

\* The delete entered first, the edit after it, and the edit's action lies
\* below the delete's.
C14_Witness ==
    \E r1, r2 \in ConcSlots :
        LET q1 == reqs[r1]
            q2 == reqs[r2]
            now == ActionsOf(stacks, "u1")
        IN  /\ q1.kind = "delete" /\ q2.kind = "edit"
            /\ HasPushed(q1) /\ HasPushed(q2) /\ q1.at < q2.at
            /\ q1.pre.stacks = EmptyMap
            /\ Len(now) = 2
            /\ now[1].type = "EDIT" /\ now[2].type = "DELETE"


\* Both requests have been answered.
AllAnswered == \A r \in ConcSlots : reqs[r].pc = "done"

\* Two undos that both failed leave the stack as the first of them found it.
C15_NoSwap ==
    \A r1, r2 \in ConcSlots :
        LET S1 == ActionsOf(reqs[r1].pre.stacks, "u1")
            S2 == ActionsOf(reqs[r2].pre.stacks, "u1")
        IN  (AllAnswered /\ r1 # r2 /\ RestoreFailed(reqs[r1])
                /\ RestoreFailed(reqs[r2]) /\ Len(S1) >= Len(S2)) =>
                ActionsOf(stacks, "u1") = S1

\* After a failed undo beside an edit, a delete or a status request, the
\* actions that were below the popped one are still the lowest of the stack,
\* in their order, and the popped one lies above them.
C15_KeepsPlace ==
    \A r1, r2 \in ConcSlots :
        LET S == ActionsOf(reqs[r1].pre.stacks, "u1")
            now == ActionsOf(stacks, "u1")
            n == Len(S)
        IN  (AllAnswered /\ r1 # r2 /\ RestoreFailed(reqs[r1])
                /\ reqs[r2].kind # "undo" /\ n < StackLimit) =>
                /\ Len(now) >= n
                /\ SubSeq(now, 1, n - 1) = SubSeq(S, 1, n - 1)
                /\ \E i \in n..Len(now) : now[i] = S[n]

\* The step in which a failed undo pushes its action back puts that action on
\* top and removes none.
C15_NoEviction ==
    \A r \in ConcSlots :
        (~RestoreFailed(reqs[r]) /\ RestoreFailed(reqs'[r])) =>
            ActionsOf(stacks', "u1") =
                Append(ActionsOf(stacks, "u1"), reqs[r].lastAction)

\* C15 as claimed: a failed undo leaves the stack as it was before the undo
\* also when another request of the same user runs while the undo waits for
\* the store: once both are answered the pushed-back action lies above the
\* actions that were below it, the push-back evicts no action, and two failed
\* undos do not swap their two actions.
C15_ConcurrentFailedUndo ==
    /\ [](C15_NoSwap /\ C15_KeepsPlace)
    /\ [][C15_NoEviction]_vars


----------------------------------------------------------------------------
(* Properties of the middleware in front of the handlers (AuthSpec) *)

\* C16: a request whose Authorization header gives no token is answered 401,
\* one whose token has a wrong signature or has expired 403, both by the
\* middleware: no handler runs for it, so no user is resolved, no query is
\* sent to the store, and the UndoStack and the tables stay as they were.
C16_UnresolvedActorRefused ==
    \A r \in Slots :
        LET q == reqs[r] IN
        (q.pc # "idle" /\ q.userId \notin Actors) =>
            /\ q.pc = "done"
            /\ q.res.status = IF Len(q.header) < 2 THEN 401 ELSE 403
            /\ q.res.success = FALSE
            /\ q.query = NoQuery
            /\ q.lastAction = Null
            /\ stacks = q.pre.stacks
            /\ StoreUnchangedSince(q)

\* An undo with an expired token of u1 has been refused while u1 holds
\* actions to undo.
C16_Witness ==
    \E r \in Slots :
        LET q == reqs[r] IN
        /\ Answered(q, "undo")
        /\ q.header = <<"Bearer", Token("u1", TRUE, TRUE)>>
        /\ q.res.status = 403
        /\ size(stacks, "u1") > 0


\* Both requests were undos answered with success, the one in slot r2
\* entering after the one in slot r1 had been answered, and the first found
\* the stack and the post p1 as n answered edits of p1 leave them.
TwoUndosAfterEdits(r1, r2, n) ==
    /\ AllAnswered
    /\ UndoSucceeded(reqs[r1]) /\ UndoSucceeded(reqs[r2])
    /\ reqs[r1].during = {} /\ reqs[r2].during = {}
    /\ reqs[r1].pre.stacks = AfterEdits(n).stacks
    /\ reqs[r1].pre.posts = [id \in {"p1"} |-> AfterEdits(n).row]
    /\ reqs[r2].pre.stacks = pop(AfterEdits(n).stacks, "u1").stacks

----------------------------------------------------------------------------
(* Properties of a delete followed by further edits (EvictSpec) *)

\* The action is the DELETE of the post P.
DeleteOf(action, P) == action.type = "DELETE" /\ action.post.id = P

\* The post P is not in the posts table, no stack holds a DELETE of it, and
\* no request in its handler holds one or is about to record one.
Gone(P) ==
    /\ P \notin DOMAIN posts
    /\ \A u \in DOMAIN stacks :
          \A i \in 1..Len(stacks[u]) : ~DeleteOf(stacks[u][i], P)
    /\ \A r \in InFlight :
          /\ ~DeleteOf(reqs[r].lastAction, P)
          /\ ~(reqs[r].query.op = "select_post" /\ reqs[r].result.data # Null
                  /\ reqs[r].result.data.id = P)

\* A DELETE in a stack has fewer than 10 actions above it: the 10th action
\* pushed on top of it evicts it.
C18_TenPushesEvict ==
    \A u \in DOMAIN stacks :
        \A i \in 1..Len(stacks[u]) :
            stacks[u][i].type = "DELETE" => Len(stacks[u]) - i < StackLimit

\* C18: after u1 has deleted p1, 10 further pushes by u1 before any undo
\* evict the DELETE of p1, and once p1 is gone in this way it stays gone:
\* no undo by any user inserts it again.
C18_EvictedDeleteIsFinal ==
    /\ []C18_TenPushesEvict
    /\ [][Gone("p1") => Gone("p1")']_vars

\* p1 has been deleted, 10 edits of p3 have evicted its DELETE, and all ten
\* have been undone: the stack is empty, p3 has its first content, p1 is
\* absent.
C18_Witness ==
    \E r \in Slots :
        /\ UndoSucceeded(reqs[r])
        /\ Gone("p1")
        /\ MapHas(stacks, "u1") /\ stacks["u1"] = <<>>
        /\ posts["p3"].content = P3Row.content


----------------------------------------------------------------------------
(* The shape of the recorded actions (SeqSpec) *)

\* The action is one of the two variants, with the fields of that variant
\* and no others.
WellFormed(action) ==
    \/ /\ action.type = "EDIT"
       /\ DOMAIN action =
             {"type", "post_id", "original_content", "new_content", "timestamp"}
    \/ /\ action.type = "DELETE"
       /\ DOMAIN action = {"type", "post", "timestamp"}
       /\ DOMAIN action.post =
             {"id", "author_id", "content", "likes", "created_at"}

\* C19: every action in any user's array, and every action an undo has
\* popped, is an EDIT or a DELETE with exactly the fields of its variant; no
\* undo is answered "Unknown action type", and an undo that popped an action
\* either restored it (200) or failed to and pushed it back on top (500), so
\* that no popped action is dropped.
C19_OnlyTwoVariants ==
    /\ \A u \in DOMAIN stacks :
          \A i \in 1..Len(stacks[u]) : WellFormed(stacks[u][i])
    /\ \A r \in Slots :
          LET q == reqs[r] IN
          (q.kind = "undo" /\ q.lastAction # Null) =>
              /\ WellFormed(q.lastAction)
              /\ q.res.message # "Unknown action type"
              /\ q.pc = "done" =>
                    \/ q.res.status = 200
                    \/ /\ RestoreFailed(q)
                       /\ peek(stacks, q.userId) = q.lastAction

\* Undos have popped both an EDIT and a DELETE: the one answered last popped
\* an EDIT and u1's stack still holds a DELETE.
C19_Witness ==
    \E r \in Slots :
        LET q == reqs[r] IN
        /\ UndoSucceeded(q)
        /\ q.lastAction.type = "EDIT"
        /\ \E i \in 1..size(stacks, "u1") : stacks["u1"][i].type = "DELETE"


----------------------------------------------------------------------------
(* Every request is answered (FairSpec) *)

\* While a request is in its handler nothing has been sent; when it is
\* answered one response with a status has been, and a response that reports
\* a failure has success false and a message.
C20_OneResponse ==
    \A r \in Slots :
        LET q == reqs[r] IN
        /\ q.pc \notin {"idle", "done"} => q.res = NoRes
        /\ q.pc = "done" =>
              /\ q.res.status \in {200, 400, 404, 500}
              /\ q.res.success = (q.res.status = 200)
              /\ q.res.status # 200 => q.res.message # ""

\* C20: every edit, delete, undo and undo-status request that has entered its
\* handler is answered, exactly once, whether the store answers its queries
\* with results or with errors and whether or not the handler throws; a
\* failure is answered with success false and a message; and every request
\* entering after a failed one is answered in the same way.
C20_AlwaysAnswered ==
    /\ []C20_OneResponse
    /\ \A r \in Slots :
          (reqs[r].pc \notin {"idle", "done"}) ~> (reqs[r].pc = "done")

\* An edit that threw in the handler was answered 500 at a moment when an
\* earlier store failure had already been answered.
C20_Witness ==
    \E r \in Slots :
        LET q == reqs[r] IN
        /\ Answered(q, "edit")
        /\ "content" \in DOMAIN q.body
        /\ q.body.content = NotAString
        /\ q.res.status = 500
        /\ q.res.message = "Internal server error"
        /\ nfail = MaxFail


----------------------------------------------------------------------------
(* The order of push and store mutation within one edit or delete (SeqSpec) *)

\* The query is one that changes a table.
Mutating(query) ==
    query.op \in {"update_post", "delete_likes", "delete_comments", "delete_post"}

\* An edit or delete that has sent a mutating query has recorded its action.
C21_PushedBeforeMutation ==
    \A r \in Slots :
        (reqs[r].kind \in {"edit", "delete"} /\ Mutating(reqs[r].query)) =>
            HasPushed(reqs[r])

\* The step in which an edit or delete records its action: the action on top
\* afterwards is built from the row the request's own fetch returned, and the
\* tables are as before.
C21_PushHoldsFetched ==
    \A r \in Slots :
        LET q == reqs[r]
            fetched == q.result.data
            top == peek(stacks', q.userId)
        IN  (~HasPushed(q) /\ HasPushed(reqs'[r])) =>
                /\ q.query.op = "select_post"
                /\ q.kind = "edit" =>
                      top = [type |-> "EDIT", post_id |-> fetched.id,
                             original_content |-> fetched.content,
                             new_content |-> Trim(q.body.content),
                             timestamp |-> clock]
                /\ q.kind = "delete" =>
                      top = [type |-> "DELETE",
                             post |-> [id |-> fetched.id,
                                       author_id |-> fetched.author_id,
                                       content |-> fetched.content,
                                       likes |-> fetched.likes,
                                       created_at |-> fetched.created_at],
                             timestamp |-> clock]
                /\ UNCHANGED storeVars

\* A step that changes a table for an edit or delete is the answer to a
\* query of a request that has recorded its action.
C21_NoMutationUnpushed ==
    \A r \in Slots :
        (reqs[r].kind \in {"edit", "delete"} /\ ~reqs[r].ready
            /\ reqs'[r].ready /\ storeVars' # storeVars) =>
            HasPushed(reqs[r])

\* C21: an edit or delete pushes its action before its first query that
\* changes a table, and the action holds what the request's own fetch read:
\* for EDIT the fetched content and the trimmed new content, for DELETE the
\* id, owner, content, like count and created-at of the fetched row; no table
\* is changed for an edit or delete that has not pushed.
C21_PushThenMutate ==
    /\ []C21_PushedBeforeMutation
    /\ [][C21_PushHoldsFetched]_vars
    /\ [][C21_NoMutationUnpushed]_vars

\* u1's edit of p1 has pushed its action and sent the update, which the
\* store has not yet run: p1 still has the content the action holds.
C21_Witness ==
    \E r \in Slots :
        LET q == reqs[r] IN
        /\ q.kind = "edit" /\ q.pc = "edit_update" /\ ~q.ready
        /\ peek(stacks, "u1").type = "EDIT"
        /\ posts["p1"].content = peek(stacks, "u1").original_content
        /\ posts["p1"].content # Trim(q.body.content)


----------------------------------------------------------------------------
(* Store failures after the push (SeqSpec) *)

\* The last query of the answered request q was op and came back with an
\* error.
FailedAt(q, op) == q.pc = "done" /\ q.query.op = op /\ q.result.error # Null

\* C22: an edit whose update fails answers 500, leaves the content of the
\* post as it was, and leaves the EDIT action it pushed on top of the user's
\* stack; a delete whose post-row deletion fails answers 500 with the post
\* still in the table and the DELETE action it pushed on top of the stack.
C22_StaleActionStays ==
    \A r \in Slots :
        LET q == reqs[r]
            P == q.body.post_id
        IN  /\ (q.kind = "edit" /\ FailedAt(q, "update_post")) =>
                  /\ q.res.status = 500 /\ q.res.success = FALSE
                  /\ posts = q.pre.posts
                  /\ stacks = push(q.pre.stacks, q.userId,
                        EditAction(q.pre.posts[P], Trim(q.body.content), clock))
            /\ (q.kind = "delete" /\ FailedAt(q, "delete_post")) =>
                  /\ q.res.status = 500 /\ q.res.success = FALSE
                  /\ P \in DOMAIN posts /\ posts[P] = q.pre.posts[P]
                  /\ stacks = push(q.pre.stacks, q.userId,
                        DeleteAction(q.pre.posts[P], clock))

\* The update of u1's edit of p1 has failed with u1 holding 10 actions
\* before it.
C22_Witness ==
    \E r \in Slots :
        LET q == reqs[r] IN
        /\ q.kind = "edit" /\ FailedAt(q, "update_post")
        /\ size(q.pre.stacks, "u1") = StackLimit
        /\ peek(stacks, "u1").type = "EDIT"

\* The post-row deletion of u1's delete of p1 has failed: p1 is in the table
\* under a DELETE action of it.
C22_WitnessDelete ==
    \E r \in Slots :
        LET q == reqs[r] IN
        /\ q.kind = "delete" /\ FailedAt(q, "delete_post")
        /\ "p1" \in DOMAIN posts
        /\ peek(stacks, "u1").type = "DELETE"


\* Rows of the likes or comments table that belong to the post P.
Of(rows, P) == {x \in rows : x.post_id = P}

\* A delete that found its post and has been answered.
DeleteAnswered(q) == Answered(q, "delete") /\ HasPushed(q)

\* C23 as claimed: when the deletion of the likes or of the comments has
\* failed, so that rows of the post are still there, the post row is deleted
\* all the same and the delete answers success.
C23_CascadeFailureStillDeletes ==
    \A r \in Slots :
        LET q == reqs[r]
            P == q.body.post_id
        IN  (DeleteAnswered(q) /\ (Of(likes, P) # {} \/ Of(comments, P) # {})) =>
                /\ q.res.status = 200
                /\ P \notin DOMAIN posts

\* C23 amended: a failed deletion of likes or comments does not end the
\* request: it always goes on to the deletion of the post row, whose result
\* alone decides the answer.  With likes.post_id and comments.post_id foreign
\* keys to posts.id that deletion succeeds only when no row of the post is
\* left, so a delete that answers success leaves no orphaned row; one that
\* answers 500 leaves the post row as it was and brings back none of the
\* likes and comments rows already deleted.
C23_PostRowDecides ==
    \A r \in Slots :
        LET q == reqs[r]
            P == q.body.post_id
        IN  DeleteAnswered(q) =>
                /\ q.query.op = "delete_post"
                /\ q.res.status = IF q.result.error = Null THEN 200 ELSE 500
                /\ q.res.status = 200 =>
                      /\ P \notin DOMAIN posts
                      /\ Of(likes, P) = {} /\ Of(comments, P) = {}
                /\ q.res.status = 500 =>
                      /\ posts = q.pre.posts
                      /\ likes \subseteq q.pre.likes
                      /\ comments \subseteq q.pre.comments
                /\ likes \ Of(likes, P) = q.pre.likes \ Of(q.pre.likes, P)
                /\ comments \ Of(comments, P) = q.pre.comments \ Of(q.pre.comments, P)

\* The likes of p1 were deleted, the deletion of its comments failed, and the
\* deletion of the post row was refused: p1 is still there without its likes.
C23_Witness ==
    \E r \in Slots :
        LET q == reqs[r] IN
        /\ DeleteAnswered(q) /\ q.body.post_id = "p1"
        /\ q.res.status = 500
        /\ Of(q.pre.likes, "p1") # {} /\ Of(likes, "p1") = {}
        /\ Of(comments, "p1") # {}
        /\ q.result.error.message = "foreign key violation"



\* C24: a step of a request made for actor A, and a direct clear for A,
\* leaves the sequence of actions of every other actor as it was; after
\* clear(A) actor A has no action left.
SameActions(B) == ActionsOf(stacks', B) = ActionsOf(stacks, B)

C24_RequestFrame ==
    \A r \in DOMAIN reqs :
        reqs'[r] # reqs[r] =>
            \A B \in Actors \ {reqs'[r].userId} : SameActions(B)

C24_CallFrame ==
    call' # call =>
        /\ \A B \in Actors \ {call'.userId} : SameActions(B)
        /\ call'.op = "clear" => ActionsOf(stacks', call'.userId) = <<>>

C24_OtherActorsUntouched == [][C24_RequestFrame /\ C24_CallFrame]_vars

C24_Witness ==
    /\ call.op = "clear"
    /\ size(call.before, call.userId) > 0
    /\ \E B \in Actors \ {call.userId} : size(stacks, B) > 0
    /\ \E r \in DOMAIN reqs :
           /\ reqs[r].pc = "done"
           /\ reqs[r].userId = call.userId
           /\ HasPushed(reqs[r])



\* C25: every DELETE action in the array of actor A holds a post whose
\* author is A, and every EDIT action is recorded for a post whose author is
\* A at that moment; so a step of an undo of A changes or inserts no post of
\* another author.
C25_OwnSnapshots ==
    \A A \in DOMAIN stacks :
        \A i \in 1..Len(stacks[A]) :
            LET a == stacks[A][i] IN
            /\ a.type = "DELETE" => a.post.author_id = A
            /\ (a.type = "EDIT" /\ a.post_id \in DOMAIN posts) =>
                   posts[a.post_id].author_id = A

C25_RecordsOwnPost ==
    \A r \in DOMAIN reqs :
        (HasPushed(reqs'[r]) /\ ~HasPushed(reqs[r])) =>
            LET A == reqs'[r].userId
                a == peek(stacks', A)
            IN  /\ a # Null
                /\ Matches(a, reqs'[r])
                /\ reqs'[r].body.post_id \in DOMAIN posts
                /\ posts[reqs'[r].body.post_id].author_id = A

C25_UndoTouchesOwnPost ==
    \A r \in DOMAIN reqs :
        (reqs'[r] # reqs[r] /\ reqs'[r].kind = "undo") =>
            /\ DOMAIN posts \subseteq DOMAIN posts'
            /\ \A id \in DOMAIN posts' :
                   (id \notin DOMAIN posts \/ posts'[id] # posts[id]) =>
                       posts'[id].author_id = reqs'[r].userId

C25_UndoOnlyOwnPosts ==
    /\ []C25_OwnSnapshots
    /\ [][C25_RecordsOwnPost /\ C25_UndoTouchesOwnPost]_vars

\* u1 has asked to delete the post of u2 and then undone: the undo restored
\* the own post p1 and the post of u2 is as it was.
C25_Witness ==
    \E r, t \in DOMAIN reqs :
        /\ Answered(reqs[r], "delete") /\ reqs[r].userId = "u1"
        /\ reqs[r].body.post_id = "p4" /\ reqs[r].res.status = 404
        /\ Answered(reqs[t], "undo") /\ reqs[t].userId = "u1"
        /\ reqs[t].res.status = 200
        /\ reqs[t].at >= reqs[r].at /\ t # r
        /\ "p4" \in DOMAIN posts /\ posts["p4"].author_id = "u2"
        /\ size(stacks, "u2") > 0



\* C26: among interleaved undo requests of one actor, the step that hands an
\* action to a request removes it from the array (so no second request is
\* handed it), no undo handler goes on with a pop that returned nothing, and
\* two successful undos have applied two different entries of the array.
C26_PopHandsAndRemoves ==
    \A r \in DOMAIN reqs :
        (reqs[r].pc = "idle" /\ reqs'[r].pc # "idle" /\ reqs'[r].kind = "undo"
            /\ ~isEmpty(stacks, reqs'[r].userId)) =>
            /\ reqs'[r].lastAction # Null
            /\ ActionsOf(stacks, reqs'[r].userId) =
                   Append(ActionsOf(stacks', reqs'[r].userId),
                          reqs'[r].lastAction)

C26_PopNeverNone ==
    \A r \in DOMAIN reqs :
        LET q == reqs[r] IN
        (q.kind = "undo" /\ q.pc # "idle" /\ q.lastAction = Null) =>
            /\ q.pc = "done"
            /\ q.res.status = 400
            /\ isEmpty(q.pre.stacks, q.userId)

C26_NotAppliedTwice ==
    \A r, t \in DOMAIN reqs :
        LET q == reqs[r]
            o == reqs[t]
        IN  (r # t /\ UndoSucceeded(q) /\ UndoSucceeded(o)
                /\ q.userId = o.userId /\ r \notin o.during /\ t \in q.during) =>
                ActionsOf(o.pre.stacks, o.userId) =
                    ActionsOf(stacks, o.userId) \o <<q.lastAction, o.lastAction>>

C26_InterleavedUndos ==
    /\ []C26_PopNeverNone
    /\ []C26_NotAppliedTwice
    /\ [][C26_PopHandsAndRemoves]_vars

\* Two undos of u1, the second entering while the first awaits the store,
\* have both succeeded.
C26_Witness ==
    \E r, t \in DOMAIN reqs :
        /\ r # t
        /\ UndoSucceeded(reqs[r]) /\ UndoSucceeded(reqs[t])
        /\ t \in reqs[r].during
        /\ reqs[r].lastAction # Null /\ reqs[t].lastAction # Null



\* The undo o entered while the edit or delete q, having pushed its action,
\* awaited the store, and was handed that action.
HandedActionOf(o, r) ==
    LET q == reqs[r] IN
    /\ q.kind \in {"edit", "delete"} /\ HasPushed(q)
    /\ o.kind = "undo" /\ o.userId = q.userId
    /\ r \in o.during
    /\ o.lastAction # Null
    /\ Matches(o.lastAction, q)
    /\ o.pre.stacks = push(q.pre.stacks, q.userId, o.lastAction)

\* C27 as claimed: when an undo was handed the action of an edit (or delete)
\* of the same actor that had not completed its update (or deletion), and
\* both requests have succeeded, the post is not left edited (or deleted)
\* with the action consumed: it holds the original content (or is present).
C27_RestoreNotAhead ==
    \A r, t \in DOMAIN reqs :
        LET q == reqs[r]
            o == reqs[t]
        IN  (r # t /\ q.pc = "done" /\ q.res.status = 200
                /\ UndoSucceeded(o) /\ HandedActionOf(o, r)) =>
                IF q.kind = "edit"
                THEN /\ q.body.post_id \in DOMAIN posts
                     /\ posts[q.body.post_id].content = q.originalPost.content
                ELSE q.body.post_id \in DOMAIN posts



\* A step in which the store fails a query of itself.
SpontaneousFailure == nfail' # nfail

\* A step in which the actor sends a new request of the kind.
Sends(userId, kinds) ==
    \E r \in DOMAIN reqs :
        /\ reqs[r].pc \in {"idle", "done"}
        /\ reqs'[r] # reqs[r]
        /\ reqs'[r].userId = userId
        /\ reqs'[r].kind \in kinds

\* C28 as claimed: if from some point on the store fails no query of itself
\* and u1 sends no new edit or delete, and u1 keeps sending undo requests,
\* then the array of u1 is empty again and again: no action stays on top
\* forever with every undo of it failing and being pushed back.
C28_UndosReachEmpty ==
    (/\ <>[][~SpontaneousFailure]_vars
     /\ <>[][~Sends("u1", {"edit", "delete"})]_vars
     /\ []<><<Sends("u1", {"undo"})>>_vars)
        => []<>isEmpty(stacks, "u1")



\* C29: on the page, after the initial push of feed and through any
\* navigation and back clicks, the navigation stack is never empty, its top
\* entry is the page displayed, and the back button is displayed exactly
\* when the stack holds more than one entry; a back click pops the current
\* page and returns and displays the new top.
C29_TopIsDisplayed ==
    /\ Len(navigationStack) >= 1
    /\ navigationStack[Len(navigationStack)].page = activePage
    /\ backBtn = "flex" <=> Len(navigationStack) > 1

C29_BackPopsCurrent ==
    (task'.last = "back"
        /\ <<task, navigationStack>>' # <<task, navigationStack>>) =>
        /\ navigationStack' = Popped(navigationStack)
        /\ task'.ret = navigationStack'[Len(navigationStack')].page
        /\ activePage' = task'.ret

C29_NavigationStack ==
    /\ []C29_TopIsDisplayed
    /\ [][C29_BackPopsCurrent]_vars

\* A back click has returned to a page from which one can go back again.
C29_Witness ==
    /\ task.last = "back"
    /\ task.ret = activePage
    /\ Len(navigationStack) = 2
    /\ backBtn = "flex"
    /\ activePage # "feed"



\* C30 as claimed: when performUndo has popped a like_post or unlike_post
\* action and has finished, the like of the user on that post is the
\* opposite of what it was when the action was popped, and isLoading is
\* false.
C30_UndoTogglesLikeBack ==
    (task.pc = "idle" /\ task.last = "undo" /\ task.undone # Null
        /\ task.undone.action \in {"like_post", "unlike_post"}) =>
        /\ (LikeRow(task.undone.postId, AppState.currentUser.id) \in likes)
               # task.wasLiked
        /\ ~AppState.isLoading

====
